---- MODULE Spec2Model ----
(***************************************************************************)
(* A model of solid-i18n (src/src/solid-i18n.tsx): the deep path reader    *)
(* deepReadObject, the template interpolator template, and the store made  *)
(* by createI18nContext (translate, add, locale, dict) on top of a solid   *)
(* signal (the locale) and a solid state proxy (the dictionary).           *)
(*                                                                         *)
(* JavaScript values are tagged records; a JavaScript string is a sequence *)
(* of one-character strings, so that trim, split and the regular           *)
(* expression of template are computed character by character.             *)
(***************************************************************************)
EXTENDS Integers, Sequences, FiniteSets, TLC

VARIABLES
  heap,    \* the objects that are mutated: dictionaries and locale tables
  store,   \* per provider: the dictionary object and the locale signal
  view,    \* per provider: the rendered <h1>{t('title')}</h1> and what it read
  lastSet, \* history: the argument of the last locale(x) that set the locale
  args,    \* the arguments of the last call (of the call, in SpecRead/SpecTpl)
  ret      \* the value the last call returned, or Pending

vars == <<heap, store, view, lastSet, args, ret>>
storeVars == <<heap, store, view, lastSet>>

----------------------------------------------------------------------------
(* JavaScript values *)

Undef == [t |-> "undefined"]
Null == [t |-> "null"]
Str(s) == [t |-> "string", s |-> s]
Num(n) == [t |-> "number", n |-> n]
Bool(b) == [t |-> "boolean", b |-> b]
Fn(f) == [t |-> "function", f |-> f]
Obj(o) == [t |-> "object", o |-> o]
\* the outcome of a call that throws a TypeError
TypeError == [t |-> "TypeError"]
\* no value returned yet
Pending == [t |-> "pending"]

EmptyObj == Obj(<<>>)

\* ToBoolean
Truthy(v) ==
  CASE v.t = "undefined" -> FALSE
    [] v.t = "null" -> FALSE
    [] v.t = "string" -> v.s # <<>>
    [] v.t = "number" -> v.n # 0
    [] v.t = "boolean" -> v.b
    [] OTHER -> TRUE

\* a[b]: reading a property of undefined or null throws; own properties of
\* objects are modelled, primitives and functions have none.
Get(a, b) ==
  CASE a.t \in {"undefined", "null", "TypeError"} -> TypeError
    [] a.t = "object" -> IF b \in DOMAIN a.o THEN a.o[b] ELSE Undef
    [] OTHER -> Undef

----------------------------------------------------------------------------
(* Strings *)

LineTerminators == {"\n"}
WhiteSpace == {" ", "\n"}

RECURSIVE TrimStart(_)
TrimStart(s) ==
  IF s # <<>> /\ Head(s) \in WhiteSpace THEN TrimStart(Tail(s)) ELSE s

RECURSIVE TrimEnd(_)
TrimEnd(s) ==
  IF s # <<>> /\ s[Len(s)] \in WhiteSpace
  THEN TrimEnd(SubSeq(s, 1, Len(s) - 1))
  ELSE s

\* String.prototype.trim
Trim(s) == TrimEnd(TrimStart(s))

\* String.prototype.split(sep) for a one-character separator: scans s,
\* cur being the segment under construction; "" splits into [""].
RECURSIVE SplitFrom(_, _, _)
SplitFrom(s, sep, cur) ==
  IF s = <<>> THEN <<cur>>
  ELSE IF Head(s) = sep THEN <<cur>> \o SplitFrom(Tail(s), sep, <<>>)
  ELSE SplitFrom(Tail(s), sep, Append(cur, Head(s)))

Split(s, sep) == SplitFrom(s, sep, <<>>)

----------------------------------------------------------------------------
(* deepReadObject *)

\* variant: the reducer (a, b) => a[b], without the test of a
ReadStepNoGuard(a, b) == Get(a, b)

\* the reducer (a, b) => (a ? a[b] : undefined)
ReadStep(a, b) == IF Truthy(a) THEN Get(a, b) ELSE Undef

\* Array.prototype.reduce(ReadStep, acc); a throw ends the reduction
RECURSIVE Reduce(_, _)
Reduce(segs, acc) ==
  IF segs = <<>> \/ acc = TypeError THEN acc
  ELSE Reduce(Tail(segs), ReadStep(acc, Head(segs)))

\* variant: value ? value : defaultValue
deepReadObjectFalsyDefault(obj, path, defaultValue) ==
  LET value == Reduce(Split(Trim(path), "."), obj)
  IN IF Truthy(value) THEN value ELSE defaultValue

\* deepReadObject(obj, path, defaultValue)
deepReadObject(obj, path, defaultValue) ==
  LET value == Reduce(Split(Trim(path), "."), obj)
  IN IF value # Undef THEN value ELSE defaultValue

----------------------------------------------------------------------------
(* Specification of the deep path reader alone *)

\* no provider is mounted in the specifications of the pure functions
NoStore == heap = <<>> /\ store = <<>> /\ view = <<>> /\ lastSet = <<>>

MaxPathLen == 5

PathAlphabet == {"a", "b", "c", ".", " "}

Strings(alphabet, n) == UNION {[1..k -> alphabet] : k \in 0..n}

hello == <<"h", "e", "l", "l", "o">>
fallback == <<"f", "a", "l", "l", "b", "a", "c", "k">>

\* { a: { b: { c: 'hello' } } }
ObjABC == Obj(<<"a">> :> Obj(<<"b">> :> Obj(<<"c">> :> Str(hello))))

\* falsy and non-object values at leaves and on the way
ObjFalsy ==
  Obj(<<"a">> :> Str(<<>>) @@ <<"b">> :> Num(0) @@
      <<"c">> :> Obj(<<"a">> :> Null @@ <<"b">> :> Bool(FALSE) @@
                     <<"c">> :> Fn("f")))

\* empty keys and keys with spaces
ObjOdd ==
  Obj(<<>> :> Obj(<<>> :> Str(<<"x">>) @@ <<"a">> :> Num(1)) @@
      <<"a", " ">> :> Str(<<"y">>) @@ <<" ", "a">> :> Bool(TRUE) @@
      <<"a">> :> Str(<<"z">>))

ReadObjs == {ObjABC, ObjFalsy, ObjOdd, Undef}
ReadDefaults == {Undef, Str(fallback)}

ReadInit ==
  /\ args \in [obj : ReadObjs, path : Strings(PathAlphabet, MaxPathLen),
               def : ReadDefaults]
  /\ ret = Pending
  /\ NoStore

CallDeepReadObject ==
  /\ ret = Pending
  /\ ret' = deepReadObject(args.obj, args.path, args.def)
  /\ UNCHANGED <<args, storeVars>>

ReadNext == CallDeepReadObject

SpecRead == ReadInit /\ [][ReadNext]_vars

----------------------------------------------------------------------------
(* C8: the deep path reader *)

\* the path without its leading and trailing white space, by positions
TrimmedPath(p) ==
  LET solid == {i \in 1..Len(p) : p[i] \notin WhiteSpace}
  IN IF solid = {} THEN <<>>
     ELSE SubSeq(p, CHOOSE i \in solid : \A j \in solid : i <= j,
                    CHOOSE i \in solid : \A j \in solid : j <= i)

\* the positions of the dots of p, and the k-th of them (0 before the first,
\* Len(p) + 1 after the last)
Dots(p) == {i \in 1..Len(p) : p[i] = "."}
DotAt(p, k) ==
  IF k = 0 THEN 0
  ELSE IF k > Cardinality(Dots(p)) THEN Len(p) + 1
  ELSE CHOOSE i \in Dots(p) : Cardinality({j \in Dots(p) : j < i}) = k - 1

\* the k-th dot-separated segment of p
Segment(p, k) == SubSeq(p, DotAt(p, k - 1) + 1, DotAt(p, k) - 1)
NSegments(p) == Cardinality(Dots(p)) + 1

\* the value reached after the first i segments, walking left to right
Walk(obj, p) ==
  LET cur[i \in 0..NSegments(p)] ==
        IF i = 0 THEN obj
        ELSE IF ~Truthy(cur[i - 1]) THEN Undef
        ELSE Get(cur[i - 1], Segment(p, i))
  IN cur[NSegments(p)]

\* C8: read(table, path, defaultValue) walks the dot-separated segments of
\* the trimmed path left to right, short-circuits to undefined at a falsy
\* value, returns defaultValue exactly when the resolved value is undefined
\* and every other resolved value ('', 0, false, null, a function, a table)
\* verbatim; read({a:{b:{c:'hello'}}}, 'a.b.c') = 'hello', 'a.b.b' gives
\* undefined, and 'a.b.b' with default 'fallback' gives 'fallback'.
C8_ReadWalks ==
  ret # Pending =>
    LET resolved == Walk(args.obj, TrimmedPath(args.path))
    IN /\ ret # TypeError
       /\ (resolved = Undef) => ret = args.def
       /\ (resolved # Undef) => ret = resolved
       /\ (args.obj = ObjABC /\ args.path = <<"a", ".", "b", ".", "c">>)
            => ret = Str(hello)
       /\ (args.obj = ObjABC /\ args.path = <<"a", ".", "b", ".", "b">>)
            => ret = args.def

\* a null leaf is returned verbatim although a default was given, the path
\* having white space around it
C8_Witness ==
  /\ ret = Null
  /\ args.def = Str(fallback)
  /\ args.path = <<" ", "c", ".", "a", " ">>

----------------------------------------------------------------------------
(* template *)

\* ToString of the value the replacer returns
StringOf(v) ==
  CASE v.t = "string" -> v.s
    [] v.t = "undefined" ->
         <<"u", "n", "d", "e", "f", "i", "n", "e", "d">>
    [] v.t = "null" -> <<"n", "u", "l", "l">>
    [] v.t = "number" -> IF v.n = 0 THEN <<"0">> ELSE <<"1">>
    [] v.t = "boolean" ->
         IF v.b THEN <<"t", "r", "u", "e">> ELSE <<"f", "a", "l", "s", "e">>
    [] v.t = "function" -> <<"f", "(", ")">>
    [] OTHER -> <<"[", "o", "b", "j", "e", "c", "t", " ",
                  "O", "b", "j", "e", "c", "t", "]">>

IsAt(str, i, c) == i >= 1 /\ i + 1 <= Len(str) /\ str[i] = c /\ str[i + 1] = c

\* the first "}}" at or after position i, 0 when there is none
RECURSIVE CloseFrom(_, _)
CloseFrom(str, i) ==
  IF i + 1 > Len(str) THEN 0
  ELSE IF IsAt(str, i, "}") THEN i
  ELSE CloseFrom(str, i + 1)

\* /{{(.*?)}}/ tried at position p: the position of the "}}" that ends the
\* match, 0 when there is no match at p. The lazy group stops at the first
\* "}}"; "." matches no line terminator, and a line terminator before the
\* first "}}" is before every later one too.
MatchAt(str, p) ==
  IF ~IsAt(str, p, "{") THEN 0
  ELSE LET q == CloseFrom(str, p + 2)
       IN IF q = 0 THEN 0
          ELSE IF \E i \in (p + 2)..(q - 1) : str[i] \in LineTerminators
          THEN 0
          ELSE q

\* variant: a replacer that keeps the placeholder of a missing value
ReplacerKeepMissing(params, key) ==
  LET v == deepReadObject(params, key, Undef)
  IN IF v = Undef THEN Str(<<"{", "{">> \o key \o <<"}", "}">>) ELSE v

\* the replacer (_, key) => deepReadObject(params, key, '')
Replacer(params, key) == deepReadObject(params, key, Str(<<>>))

\* str.replace(reg, replacer) with the g flag, from position i on
RECURSIVE ReplaceFrom(_, _, _)
ReplaceFrom(str, i, params) ==
  IF i > Len(str) THEN <<>>
  ELSE LET q == MatchAt(str, i)
       IN IF q = 0 THEN <<str[i]>> \o ReplaceFrom(str, i + 1, params)
          ELSE StringOf(Replacer(params, SubSeq(str, i + 2, q - 1)))
                 \o ReplaceFrom(str, q + 2, params)

template(str, params) == ReplaceFrom(str, 1, params)

----------------------------------------------------------------------------
(* translate, on the value of dict[locale()] *)

\* the functions a table may hold: "const" ignores its argument, "name"
\* reads params.name and so throws when params is undefined
ConstResult == <<"{", "{", "a", "}", "}", "!">>
Call(f, params) ==
  IF f = "const" THEN Str(ConstResult) ELSE Get(params, <<"n", "a", "m", "e">>)

Or(a, b) == IF Truthy(a) THEN a ELSE b

\* variant: the result of a function is interpolated too
translateTemplateAll(table, key, params, defaultValue) ==
  LET val == deepReadObject(table, key, Or(defaultValue, Str(<<>>)))
  IN IF val.t = "function"
     THEN LET r == Call(val.f, params)
          IN IF r.t = "string" THEN Str(template(r.s, Or(params, EmptyObj)))
             ELSE r
     ELSE IF val.t = "string" THEN Str(template(val.s, Or(params, EmptyObj)))
     ELSE val

\* the body of translate, table being dict[locale()]
translateValue(table, key, params, defaultValue) ==
  LET val == deepReadObject(table, key, Or(defaultValue, Str(<<>>)))
  IN IF val.t = "function" THEN Call(val.f, params)
     ELSE IF val.t = "string" THEN Str(template(val.s, Or(params, EmptyObj)))
     ELSE val

----------------------------------------------------------------------------
(* Specification of the template interpolator alone *)

MaxParts == 3

\* a template is written as a sequence of parts: literal text, or a
\* placeholder {{ path }}
Lit(x) == [k |-> "lit", x |-> x]
Ph(x) == [k |-> "ph", x |-> x]

LitTexts == {<<"H", " ">>, <<"}">>, <<"{", " ">>, <<"\n">>}
PhTexts ==
  { <<"a">>, <<" ", "a", " ">>, <<"b", ".", "c">>, <<"x">>, <<>>,
    <<"n">>, <<"z">>, <<"\n", "a", "\n">> }
Parts == {Lit(x) : x \in LitTexts} \cup {Ph(x) : x \in PhTexts}

PartText(p) ==
  IF p.k = "lit" THEN p.x ELSE <<"{", "{">> \o p.x \o <<"}", "}">>

RECURSIVE Render(_)
Render(parts) ==
  IF parts = <<>> THEN <<>> ELSE PartText(Head(parts)) \o Render(Tail(parts))

Tom == <<"T", "o", "m">>
\* { a: 'Tom', b: { c: '{{a}}' }, n: 0, z: null }
ParamsFull ==
  Obj(<<"a">> :> Str(Tom) @@
      <<"b">> :> Obj(<<"c">> :> Str(<<"{", "{", "a", "}", "}">>)) @@
      <<"n">> :> Num(0) @@ <<"z">> :> Null)
TplParams == {EmptyObj, ParamsFull, Undef}

TplInit ==
  /\ \E parts \in UNION {[1..k -> Parts] : k \in 0..MaxParts} :
       \E params \in TplParams :
         args = [parts |-> parts, str |-> Render(parts), params |-> params]
  /\ ret = Pending
  /\ NoStore

\* template(str, params); params is an object there
CallTemplate ==
  /\ ret = Pending
  /\ args.params # Undef
  /\ ret' = [op |-> "template", v |-> Str(template(args.str, args.params))]
  /\ UNCHANGED <<args, storeVars>>

\* translate('k', params) on a table whose leaf k is the template
CallTranslateLeaf ==
  /\ ret = Pending
  /\ ret' = [op |-> "translate",
             v |-> translateValue(Obj(<<"k">> :> Str(args.str)), <<"k">>,
                                  args.params, Undef)]
  /\ UNCHANGED <<args, storeVars>>

TplNext == CallTemplate \/ CallTranslateLeaf

SpecTpl == TplInit /\ [][TplNext]_vars

----------------------------------------------------------------------------
(* C9: the interpolator *)

HasLineTerminator(x) == \E i \in 1..Len(x) : x[i] \in LineTerminators

\* the text a part contributes when every placeholder is replaced by the
\* string form of the value at its path in params, '' when there is none
Substituted(p, params) ==
  IF p.k = "lit" THEN p.x
  ELSE LET v == Walk(params, TrimmedPath(p.x))
       IN IF v = Undef THEN <<>> ELSE StringOf(v)

RECURSIVE ExpectAll(_, _)
ExpectAll(parts, params) ==
  IF parts = <<>> THEN <<>>
  ELSE Substituted(Head(parts), params) \o ExpectAll(Tail(parts), params)

\* the same, a placeholder that holds a line terminator staying as written
RECURSIVE ExpectOneLine(_, _)
ExpectOneLine(parts, params) ==
  IF parts = <<>> THEN <<>>
  ELSE (IF Head(parts).k = "ph" /\ HasLineTerminator(Head(parts).x)
        THEN PartText(Head(parts))
        ELSE Substituted(Head(parts), params))
       \o ExpectOneLine(Tail(parts), params)

ParamsOf(a) == IF a.params = Undef THEN EmptyObj ELSE a.params

\* C9 as stated: interpolate(template, params) replaces every {{ path }}
\* placeholder by the string form of the value read at path in params, and
\* by '' when there is none; no placeholder is left literal, the text
\* outside placeholders is unchanged, and translate(K) of a string leaf with
\* empty params is the leaf with every placeholder removed.
C9_AllReplaced ==
  ret # Pending => ret.v = Str(ExpectAll(args.parts, ParamsOf(args)))

\* C9 amended: the same for every placeholder that holds no line
\* terminator; a placeholder that holds one is left as written.
C9_OneLineReplaced ==
  ret # Pending => ret.v = Str(ExpectOneLine(args.parts, ParamsOf(args)))

\* translate of a leaf with two placeholders and text between and after
\* them, without params: only the text is left
C9_Witness ==
  /\ ret # Pending
  /\ ret.op = "translate"
  /\ args.params = Undef
  /\ args.parts = <<Ph(<<" ", "a", " ">>), Lit(<<"H", " ">>), Ph(<<"x">>)>>
  /\ ret.v = Str(<<"H", " ">>)

----------------------------------------------------------------------------
(* The store: createI18nContext behind I18nProvider *)

\* a reference to an object of the heap
Ref(id) == [t |-> "object", ref |-> id]

NotMounted == [mounted |-> FALSE]
Mounted(s) == store[s].mounted

fr == <<"f", "r">>
en == <<"e", "n">>
sw == <<"s", "w">>
\* navigator.language of the host
NavigatorLanguage == <<"e", "n", "-", "U", "S">>

title == <<"t", "i", "t", "l", "e">>
name == <<"n", "a", "m", "e">>
Bonjour == <<"B", "o", "n", "j", "o", "u", "r">>
Hello == <<"H", "e", "l", "l", "o">>
Salut == <<"S", "a", "l", "u", "t">>
\* 'hej {{ name }}'
HejName ==
  <<"h", "e", "j", " ", "{", "{", " ", "n", "a", "m", "e", " ", "}", "}">>
HejTom == <<"h", "e", "j", " ", "T", "o", "m">>
\* 'Hi {{ name }}!'
HiName == <<"H", "i", " ", "{", "{", "n", "a", "m", "e", "}", "}", "!">>

\* the tables of the dictionary the application passes to its providers:
\* fr: { title: 'Bonjour', a: { b: 'x' }, f: p => p.name, g: () => '{{a}}!' }
\* en: { title: 'Hello', n: 0 }
TableFr ==
  title :> Str(Bonjour) @@ <<"a">> :> Obj(<<"b">> :> Str(<<"x">>)) @@
  <<"f">> :> Fn("name") @@ <<"g">> :> Fn("const")
TableEn == title :> Str(Hello) @@ <<"n">> :> Num(0)

\* variant: dict[lang], the table of the locale the provider started with
CurrentTableOfLang(h, st) ==
  LET d == h[st.root]
  IN IF st.lang \in DOMAIN d THEN Obj(h[d[st.lang].ref]) ELSE Undef

\* dict[locale()] through the state proxy: the table of the current locale
CurrentTable(h, st) ==
  LET d == h[st.root]
  IN IF st.locale \in DOMAIN d THEN Obj(h[d[st.locale].ref]) ELSE Undef

\* the dictionary as a value, for deepReadObject(dict, lang)
DictValue(h, st) ==
  LET d == h[st.root] IN Obj([l \in DOMAIN d |-> Obj(h[d[l].ref])])

\* the view <h1>{t('title')}</h1>: its output, and the signal and the state
\* properties its evaluation read (the proxy tracks every property read)
RenderView(h, st, s) ==
  LET d == h[st.root]
  IN [out |-> translateValue(CurrentTable(h, st), title, Undef, Undef),
      deps |-> {<<"signal", s, <<>>>>, <<"prop", st.root, st.locale>>}
                 \cup (IF st.locale \in DOMAIN d
                       THEN {<<"prop", d[st.locale].ref, title>>}
                       ELSE {})]

\* the computations subscribed to something written run again
Notify(written, h, st) ==
  [s \in DOMAIN view |->
     IF st[s].mounted /\ view[s].deps \cap written # {}
     THEN RenderView(h, st[s], s)
     ELSE view[s]]

NewId(h) == Cardinality(DOMAIN h) + 1

\* createI18nContext(props.dict, props.locale) and the first rendering of
\* the children. createState(init) wraps init and copies nothing.
I18nProvider(s, dictArg, localeArg) ==
  /\ ~Mounted(s)
  /\ LET fresh == dictArg = Undef
         root == IF fresh THEN NewId(heap) ELSE dictArg.ref
         lang == IF localeArg = Undef THEN NavigatorLanguage ELSE localeArg.s
         h == IF fresh THEN heap @@ (root :> <<>>) ELSE heap
         st == [mounted |-> TRUE, root |-> root, lang |-> lang,
                locale |-> lang]
     IN /\ heap' = h
        /\ store' = [store EXCEPT ![s] = st]
        /\ view' = [view EXCEPT ![s] = RenderView(h, st, s)]
        /\ lastSet' = [lastSet EXCEPT ![s] = lang]
  /\ args' = [op |-> "provider", s |-> s]
  /\ ret' = Pending

\* translate(key, params, defaultValue)
Translate(s, key, params, def) ==
  /\ Mounted(s)
  /\ args' = [op |-> "translate", s |-> s, key |-> key, params |-> params,
              def |-> def]
  /\ ret' = translateValue(CurrentTable(heap, store[s]), key, params, def)
  /\ UNCHANGED storeVars

\* variant: the source replaces the target
ObjectAssignReplace(target, source) == source

\* Object.assign(target, source) on the contents of the two objects
ObjectAssign(target, source) ==
  [k \in DOMAIN target \cup DOMAIN source |->
     IF k \in DOMAIN source THEN source[k] ELSE target[k]]

\* variant: add replaces the dictionary by { [lang]: table }
AddReplacingDict(s, lang, table) ==
  /\ Mounted(s)
  /\ LET root == store[s].root
         n == NewId(heap)
         h == [heap EXCEPT ![root] = (lang :> Ref(n))] @@ (n :> table.o)
     IN /\ heap' = h
        /\ view' = Notify({<<"prop", root, lang>>}, h, store)
  /\ args' = [op |-> "add", s |-> s, lang |-> lang, table |-> table]
  /\ ret' = Undef
  /\ UNCHANGED <<store, lastSet>>

\* add(lang, table): setDict(lang, (t) => Object.assign(t || {}, table)).
\* With a table t the updater assigns into t itself and returns it; setState
\* sees the value it had and writes nothing, so nothing is notified. Without
\* one the new object is set at dict[lang] and the readers of dict[lang] run.
Add(s, lang, table) ==
  /\ Mounted(s)
  /\ LET root == store[s].root
     IN IF lang \in DOMAIN heap[root]
        THEN LET t == heap[root][lang].ref
             IN /\ heap' = [heap EXCEPT ![t] = ObjectAssign(@, table.o)]
                /\ view' = view
        ELSE LET n == NewId(heap)
                 h == [heap EXCEPT ![root] = @ @@ (lang :> Ref(n))]
                        @@ (n :> ObjectAssign(<<>>, table.o))
             IN /\ heap' = h
                /\ view' = Notify({<<"prop", root, lang>>}, h, store)
  /\ args' = [op |-> "add", s |-> s, lang |-> lang, table |-> table]
  /\ ret' = Undef
  /\ UNCHANGED <<store, lastSet>>

\* variant: lang !== undefined
LocaleSetsDefined(lang) == lang # Undef

\* locale(lang): lang ? setLocale(lang) : locale()
LocaleSets(lang) == Truthy(lang)

\* setLocale(lang) returns lang; the computations that read locale() run again
Locale(s, lang) ==
  /\ Mounted(s)
  /\ args' = [op |-> "locale", s |-> s, lang |-> lang]
  /\ IF LocaleSets(lang)
     THEN LET st == [store EXCEPT ![s].locale = lang.s]
          IN /\ store' = st
             /\ view' = Notify({<<"signal", s, <<>>>>}, heap, st)
             /\ ret' = lang
     ELSE /\ ret' = Str(store[s].locale)
          /\ UNCHANGED <<store, view>>
  /\ lastSet' = IF Truthy(lang) THEN [lastSet EXCEPT ![s] = lang.s]
                ELSE lastSet
  /\ UNCHANGED heap

\* dict(lang): deepReadObject(dict, lang)
Dict(s, lang) ==
  /\ Mounted(s)
  /\ args' = [op |-> "dict", s |-> s, lang |-> lang]
  /\ ret' = deepReadObject(DictValue(heap, store[s]), lang, Undef)
  /\ UNCHANGED storeVars

\* the dictionary object of the application: { fr: TableFr, en: TableEn }
AppDict == Ref(1)

StoreInit(stores) ==
  /\ heap = (1 :> (fr :> Ref(2) @@ en :> Ref(3)))
              @@ (2 :> TableFr) @@ (3 :> TableEn)
  /\ store = [s \in stores |-> NotMounted]
  /\ view = [s \in stores |-> [out |-> Undef, deps |-> {}]]
  /\ lastSet = [s \in stores |-> <<>>]
  /\ args = [op |-> "none"]
  /\ ret = Pending

\* the inputs
Keys ==
  { title, <<"a", ".", "b">>, <<"a">>, <<"f">>, <<"g">>, <<"n">>,
    <<"h">>, <<"a", ".", ".", "b">>, <<"t", "i", "t", "l", "e", ".", "x">>,
    <<" ", "t", "i", "t", "l", "e">> }
ParamsTom == Obj(name :> Str(Tom))
ParamSets == {Undef, ParamsTom}
Defaults == {Undef, Str(HiName), Str(<<>>)}
\* { h: 'hej {{ name }}' } and { title: 'Salut', a: { c: 'y' } }
TableHej == Obj(<<"h">> :> Str(HejName))
TableSalut ==
  Obj(title :> Str(Salut) @@ <<"a">> :> Obj(<<"c">> :> Str(<<"y">>)))
AddTables == {TableHej, TableSalut}
AddLangs == {fr, sw}
LocaleArgs == {Undef, Str(<<>>), Str(fr), Str(en), Str(sw)}
DictLangs == {fr, sw, <<"f", "r", ".", "a">>}

Init == StoreInit({1})

Next ==
  \/ \E d \in {Undef, AppDict} : \E l \in {Undef, Str(fr)} :
       I18nProvider(1, d, l)
  \/ \E k \in Keys : \E p \in ParamSets : \E d \in Defaults :
       Translate(1, k, p, d)
  \/ \E l \in AddLangs : \E t \in AddTables : Add(1, l, t)
  \/ \E l \in LocaleArgs : Locale(1, l)
  \/ \E l \in DictLangs : Dict(1, l)

Spec == Init /\ [][Next]_vars

\* two providers, which the application may give the same dictionary
InitTwo == StoreInit({1, 2})

NextTwo ==
  \E s \in {1, 2} :
    \/ \E d \in {Undef, AppDict} : I18nProvider(s, d, Str(fr))
    \/ Translate(s, title, Undef, Undef)
    \/ \E l \in AddLangs : Add(s, l, TableSalut)
    \/ \E l \in {Undef, Str(fr), Str(sw)} : Locale(s, l)
    \/ \E l \in {fr, sw} : Dict(s, l)

SpecTwo == InitTwo /\ [][NextTwo]_vars

----------------------------------------------------------------------------
(* The claims about the store *)

\* the table of locale l in the dictionary of store s, undefined without one
TableAt(s, l) ==
  LET d == heap[store[s].root]
  IN IF l \in DOMAIN d THEN Obj(heap[d[l].ref]) ELSE Undef

\* the strings of the tables and defaults, as literal text and placeholders
PartsOf(str) ==
  IF str = HejName THEN <<Lit(<<"h", "e", "j", " ">>), Ph(<<" ">> \o name \o <<" ">>)>>
  ELSE IF str = HiName THEN <<Lit(<<"H", "i", " ">>), Ph(name), Lit(<<"!">>)>>
  ELSE IF str = <<>> THEN <<>>
  ELSE <<Lit(str)>>

\* str with every placeholder replaced by the value params has for it
Interpolated(str, params) ==
  Str(ExpectAll(PartsOf(str), IF params = Undef THEN EmptyObj ELSE params))

\* the value translate starts from: the one read at the key, or the default
\* ('' without one) when the key resolves to nothing
Resolved(table, key) == Walk(table, TrimmedPath(key))
ValueRead(table, key, def) ==
  IF Resolved(table, key) # Undef THEN Resolved(table, key)
  ELSE IF def # Undef THEN def
  ELSE Str(<<>>)

\* what §4.3 says translate returns for the value v read
Expected(v, params) ==
  IF v.t = "function" THEN Call(v.f, params)
  ELSE IF v.t = "string" THEN Interpolated(v.s, params)
  ELSE v

IsTranslate == args.op = "translate"

C2_AddMergesShallowly ==
  [][ /\ args'.op = "add" =>
           LET root == store[args'.s].root
               L == args'.lang
               T == args'.table.o
               old == IF L \in DOMAIN heap[root]
                      THEN heap[heap[root][L].ref] ELSE <<>>
           IN /\ L \in DOMAIN heap'[root]
              /\ LET new == heap'[heap'[root][L].ref]
                 IN /\ DOMAIN new = DOMAIN old \cup DOMAIN T
                    /\ \A k \in DOMAIN T : new[k] = T[k]
                    /\ \A k \in DOMAIN old \ DOMAIN T : new[k] = old[k]
      /\ ( /\ args'.op = "translate"
           /\ args'.key = <<"h">>
           /\ args'.params = ParamsTom
           /\ args.op = "locale"
           /\ args.lang = Str(sw)
           /\ TableAt(args.s, sw) = TableHej
           /\ args'.s = args.s ) => ret' = Str(HejTom)
    ]_vars

\* { title: 'Salut', a: { c: 'y' } } was added to the table of fr: title is
\* overwritten, a is replaced whole, f and g are kept
C2_Witness ==
  /\ args.op = "add"
  /\ args.lang = fr
  /\ args.table = TableSalut
  /\ store[1].root = 1
  /\ heap[2] = title :> Str(Salut) @@ <<"a">> :> Obj(<<"c">> :> Str(<<"y">>))
                 @@ <<"f">> :> Fn("name") @@ <<"g">> :> Fn("const")

\* C3 as stated: when the key resolves to nothing, translate does not throw
\* and returns defaultValue when one is given and '' otherwise.
C3_MissingGivesDefaultVerbatim ==
  (IsTranslate /\ Resolved(CurrentTable(heap, store[args.s]), args.key) = Undef)
    => /\ ret # TypeError
       /\ ret = IF args.def # Undef THEN args.def ELSE Str(<<>>)

\* C3 amended: when the key resolves to nothing, translate does not throw
\* and returns defaultValue interpolated with params (so defaultValue itself
\* when it holds no placeholder) when one is given, and '' otherwise.
C3_MissingGivesDefaultInterpolated ==
  (IsTranslate /\ Resolved(CurrentTable(heap, store[args.s]), args.key) = Undef)
    => /\ ret # TypeError
       /\ ret = IF args.def # Undef THEN Interpolated(args.def.s, args.params)
                ELSE Str(<<>>)

\* the locale has no table, and the default 'Hi {{name}}!' comes back as
\* 'Hi Tom!'
C3_Witness ==
  /\ IsTranslate
  /\ CurrentTable(heap, store[args.s]) = Undef
  /\ args.def = Str(HiName)
  /\ args.params = ParamsTom
  /\ ret = Str(<<"H", "i", " ", "T", "o", "m", "!">>)

\* C4: the result of translate is fixed by the type of the value v read at
\* the key (the default, or '', when the key is missing): v(params) itself
\* when v is callable, v interpolated with params (none counting as empty)
\* when v is a string, a string default included, and v unchanged otherwise.
C4_ResultByType ==
  IsTranslate =>
    LET v == ValueRead(CurrentTable(heap, store[args.s]), args.key, args.def)
    IN /\ v.t = "function" => ret = Call(v.f, args.params)
       /\ v.t = "string" =>
            /\ Render(PartsOf(v.s)) = v.s
            /\ ret = Interpolated(v.s, args.params)
       /\ v.t \notin {"function", "string"} => ret = v

\* translate('g') on a table whose g is a function: its result is returned
\* with its placeholder intact
C4_Witness ==
  /\ IsTranslate
  /\ args.key = <<"g">>
  /\ ret = Str(ConstResult)

\* C5: locale() without argument changes neither the locale nor the
\* dictionary and returns the value of the last locale(x) call that set the
\* locale, the initial locale when there was none.
C5_LocaleGetter ==
  [][ (args'.op = "locale" /\ args'.lang = Undef) =>
        /\ storeVars' = storeVars
        /\ ret' = Str(lastSet[args'.s])
    ]_vars

\* locale() answers 'sw' in a provider that started with 'fr'
C5_Witness ==
  /\ args.op = "locale"
  /\ args.lang = Undef
  /\ store[1].lang = fr
  /\ ret = Str(sw)

\* what a caller can observe of store s
Observed(s) ==
  [t |-> translateValue(CurrentTable(heap, store[s]), title, Undef, Undef),
   locale |-> store[s].locale,
   dict |-> DictValue(heap, store[s])]

\* C6: two stores never share state: an add or a locale call on one store
\* leaves the results of translate, locale() and dict on the other unchanged,
\* also when both were created from the same initial dictionary.
C6_StoresIsolated ==
  [][ \A o \in DOMAIN store :
        (args'.op \in {"add", "locale"} /\ args'.s # o /\ Mounted(o))
          => Observed(o)' = Observed(o)
    ]_vars

C10_Frames ==
  [][ \A s \in DOMAIN store :
        (args'.op \in {"add", "locale", "translate", "dict"} /\ args'.s = s)
          => /\ args'.op = "add" =>
                  /\ store'[s] = store[s]
                  /\ \A l \in DOMAIN heap[store[s].root] \ {args'.lang} :
                       TableAt(s, l)' = TableAt(s, l)
                  /\ DOMAIN heap'[store[s].root]
                       = DOMAIN heap[store[s].root] \cup {args'.lang}
             /\ args'.op = "locale" =>
                  /\ DictValue(heap, store[s])' = DictValue(heap, store[s])
                  /\ heap' = heap
             /\ args'.op \in {"translate", "dict"} =>
                  /\ store' = store
                  /\ heap' = heap
    ]_vars

\* a table was created for sw while the locale is fr: the tables of fr and
\* en are as they were
C10_Witness ==
  /\ args.op = "add"
  /\ args.lang = sw
  /\ store[1].root = 1
  /\ store[1].locale = fr
  /\ heap[2] = TableFr
  /\ heap[3] = TableEn
  /\ sw \in DOMAIN heap[1]

====
